---- MODULE Spec2Model ----
(***************************************************************************)
(* Intelligence extraction and conversation-state bookkeeping of the       *)
(* honeypot (extractor.py, honeypot.py).                                   *)
(*                                                                         *)
(* A Python str is a sequence of one-character strings; a Python value     *)
(* that may or may not be a str is a record [kind, name].  The regular     *)
(* expressions of extractor.py are modelled by what re.findall does on     *)
(* such a sequence: a left-to-right scan for non-overlapping matches, each *)
(* match being the one the backtracking matcher finds first.               *)
(***************************************************************************)
EXTENDS Integers, Sequences, FiniteSets, TLC

\* ------------------------------------------------------------------------
\* Characters
\* ------------------------------------------------------------------------

Digits == {"0", "1", "2", "3", "4", "5", "6", "7", "8", "9"}

UpperSeq == <<"A", "B", "C", "D", "E", "F", "G", "H", "I", "J", "K", "L", "M",
              "N", "O", "P", "Q", "R", "S", "T", "U", "V", "W", "X", "Y", "Z">>

LowerSeq == <<"a", "b", "c", "d", "e", "f", "g", "h", "i", "j", "k", "l", "m",
              "n", "o", "p", "q", "r", "s", "t", "u", "v", "w", "x", "y", "z">>

Range(f) == {f[i] : i \in DOMAIN f}

IsDigit(c) == c \in Digits

IsUpper(c) == c \in Range(UpperSeq)

IsAlpha(c) == c \in Range(UpperSeq) \cup Range(LowerSeq)

IsAlnum(c) == IsAlpha(c) \/ IsDigit(c)

\* \w of the re module
IsWord(c) == IsAlnum(c) \/ c = "_"

\* \s of the re module
IsSpace(c) == c \in {" ", "\t", "\n", "\r", "\f"}

\* str.lower() on one character
LowerChar(c) ==
    IF c \in Range(UpperSeq)
    THEN LowerSeq[CHOOSE i \in DOMAIN UpperSeq : UpperSeq[i] = c]
    ELSE c

\* str.lower()
Lower(t) == [i \in DOMAIN t |-> LowerChar(t[i])]

\* \b at the position between t[i] and t[i+1], i in 0..Len(t)
WordBoundary(t, i) ==
    (i >= 1 /\ IsWord(t[i])) # (i < Len(t) /\ IsWord(t[i + 1]))

\* every character of t[i..j] satisfies the class
AllIn(t, i, j, Class(_)) == \A k \in i..j : Class(t[k])

\* the end of the longest run of Class characters that starts at i (i-1 if none)
RunEnd(t, i, Class(_)) ==
    IF i > Len(t) \/ ~Class(t[i]) THEN i - 1
    ELSE CHOOSE e \in i..Len(t) :
            /\ AllIn(t, i, e, Class)
            /\ (e = Len(t) \/ ~Class(t[e + 1]))

\* t[i..] starts with the literal lit, compared case-insensitively when ic
StartsWithAt(t, i, lit, ic) ==
    /\ i >= 1
    /\ i + Len(lit) - 1 <= Len(t)
    /\ \A k \in 1..Len(lit) :
          IF ic THEN LowerChar(t[i + k - 1]) = LowerChar(lit[k])
          ELSE t[i + k - 1] = lit[k]

\* s occurs in t (Python: s in t)
Contains(t, s) == \E i \in 1..(Len(t) - Len(s) + 1) : StartsWithAt(t, i, s, FALSE)

\* re.findall: ends[i] is the end of the match the matcher finds at start i
\* (0 when there is none); the scan resumes after each match
RECURSIVE ScanAll(_, _, _)
ScanAll(t, ends, i) ==
    IF i > Len(t) THEN {}
    ELSE IF ends[i] >= i
         THEN {SubSeq(t, i, ends[i])} \cup ScanAll(t, ends, ends[i] + 1)
         ELSE ScanAll(t, ends, i + 1)

FindAll(t, ends) == ScanAll(t, ends, 1)

\* the first non-zero of a sequence of match ends (the matcher's alternatives
\* in the order it tries them), 0 when every alternative fails
FirstMatch(alts) ==
    IF \E k \in DOMAIN alts : alts[k] # 0
    THEN alts[CHOOSE k \in DOMAIN alts :
                 alts[k] # 0 /\ \A j \in 1..(k - 1) : alts[j] = 0]
    ELSE 0

Max(S) == CHOOSE x \in S : \A y \in S : y <= x

\* ------------------------------------------------------------------------
\* extractor.py: the patterns
\* ------------------------------------------------------------------------

\* BANK_ACCOUNT_PATTERN = \b\d{9,18}\b
BANK_ACCOUNT_PATTERN(t) ==
    [i \in 1..Len(t) |->
        LET e == RunEnd(t, i, IsDigit)
        IN  IF /\ WordBoundary(t, i - 1)
               /\ (e - i + 1) \in 9..18
               /\ WordBoundary(t, e)
            THEN e ELSE 0]

IsUpiLocal(c) == IsAlnum(c) \/ c \in {".", "_", "-"}

\* UPI_ID_PATTERN = \b[a-zA-Z0-9._-]+@[a-zA-Z]{2,}\b
UPI_ID_PATTERN(t) ==
    [i \in 1..Len(t) |->
        LET l == RunEnd(t, i, IsUpiLocal)
            e == RunEnd(t, l + 2, IsAlpha)
        IN  IF /\ WordBoundary(t, i - 1)
               /\ l >= i
               /\ l + 1 <= Len(t)
               /\ t[l + 1] = "@"
               /\ e - (l + 2) + 1 >= 2
               /\ WordBoundary(t, e)
            THEN e ELSE 0]

\* [6-9]\d{9}\b starting at j
PhoneBody(t, j) ==
    IF /\ j >= 1
       /\ j + 9 <= Len(t)
       /\ t[j] \in {"6", "7", "8", "9"}
       /\ AllIn(t, j + 1, j + 9, IsDigit)
       /\ WordBoundary(t, j + 9)
    THEN j + 9 ELSE 0

IsPhoneSep(c) == c = "-" \/ IsSpace(c)

\* PHONE_PATTERN = (?:\+91[\-\s]?|91[\-\s]?)?[6-9]\d{9}\b
PHONE_PATTERN(t) ==
    [i \in 1..Len(t) |->
        LET plus == StartsWithAt(t, i, <<"+", "9", "1">>, FALSE)
            bare == StartsWithAt(t, i, <<"9", "1">>, FALSE)
            sepAt(k) == k <= Len(t) /\ IsPhoneSep(t[k])
        IN  FirstMatch(<<
              IF plus /\ sepAt(i + 3) THEN PhoneBody(t, i + 4) ELSE 0,
              IF plus THEN PhoneBody(t, i + 3) ELSE 0,
              IF bare /\ sepAt(i + 2) THEN PhoneBody(t, i + 3) ELSE 0,
              IF bare THEN PhoneBody(t, i + 2) ELSE 0,
              PhoneBody(t, i) >>)]

\* [^\s<>"{}|\\^`\[\]]; the backquote, which a TLA+ string cannot hold, is
\* in no text of the model
IsUrlChar(c) ==
    /\ ~IsSpace(c)
    /\ c \notin {"<", ">", "\"", "{", "}", "|", "\\", "^", "[", "]"}

\* one or more URL characters starting at j
UrlTail(t, j) ==
    LET e == RunEnd(t, j, IsUrlChar) IN IF e >= j THEN e ELSE 0

\* URL_PATTERN = https?://[^\s<>"{}|\\^`\[\]]+|www\.[^\s<>"{}|\\^`\[\]]+
\* (used with re.IGNORECASE)
URL_PATTERN(t) ==
    [i \in 1..Len(t) |->
        FirstMatch(<<
          IF StartsWithAt(t, i, <<"h", "t", "t", "p", "s", ":", "/", "/">>, TRUE)
          THEN UrlTail(t, i + 8) ELSE 0,
          IF StartsWithAt(t, i, <<"h", "t", "t", "p", ":", "/", "/">>, TRUE)
          THEN UrlTail(t, i + 7) ELSE 0,
          IF StartsWithAt(t, i, <<"w", "w", "w", ".">>, TRUE)
          THEN UrlTail(t, i + 4) ELSE 0 >>)]

ShortUrlHosts ==
    << <<"b", "i", "t", ".", "l", "y">>,
       <<"t", "i", "n", "y", "u", "r", "l", ".", "c", "o", "m">>,
       <<"g", "o", "o", ".", "g", "l">>,
       <<"t", ".", "c", "o">>,
       <<"i", "s", ".", "g", "d">>,
       <<"b", "u", "f", "f", ".", "l", "y">>,
       <<"o", "w", ".", "l", "y">>,
       <<"r", "e", "b", "r", "a", "n", "d", ".", "l", "y">> >>

\* SHORT_URL_PATTERN = \b(?:bit\.ly|...|rebrand\.ly)/[a-zA-Z0-9]+\b
\* (used with re.IGNORECASE)
SHORT_URL_PATTERN(t) ==
    [i \in 1..Len(t) |->
        IF ~WordBoundary(t, i - 1) THEN 0
        ELSE FirstMatch(
               [h \in DOMAIN ShortUrlHosts |->
                  LET p == i + Len(ShortUrlHosts[h]) + 1
                      e == RunEnd(t, p, IsAlnum)
                  IN  IF /\ StartsWithAt(t, i, ShortUrlHosts[h] \o <<"/">>, TRUE)
                         /\ e >= p
                         /\ WordBoundary(t, e)
                      THEN e ELSE 0])]

IsEmailLocal(c) == IsAlnum(c) \/ c \in {".", "_", "%", "+", "-"}

IsEmailDomain(c) == IsAlnum(c) \/ c \in {".", "-"}

\* [A-Z|a-z]
IsEmailTld(c) == IsAlpha(c) \/ c = "|"

\* EMAIL_PATTERN = \b[A-Za-z0-9._%+-]+@[A-Za-z0-9.-]+\.[A-Z|a-z]{2,}\b
\* the domain part is greedy, then the top-level part is greedy
EMAIL_PATTERN(t) ==
    [i \in 1..Len(t) |->
        LET l == RunEnd(t, i, IsEmailLocal)
            TldEnds(d) == {e \in (d + 3)..Len(t) :
                              AllIn(t, d + 2, e, IsEmailTld) /\ WordBoundary(t, e)}
            DomEnds == {d \in (l + 2)..(Len(t) - 1) :
                              /\ AllIn(t, l + 2, d, IsEmailDomain)
                              /\ t[d + 1] = "."
                              /\ TldEnds(d) # {}}
        IN  IF /\ WordBoundary(t, i - 1)
               /\ l >= i
               /\ l + 1 <= Len(t)
               /\ t[l + 1] = "@"
               /\ DomEnds # {}
            THEN Max(TldEnds(Max(DomEnds))) ELSE 0]

IsUpperOrDigit(c) == IsUpper(c) \/ IsDigit(c)

\* IFSC_PATTERN = \b[A-Z]{4}0[A-Z0-9]{6}\b
IFSC_PATTERN(t) ==
    [i \in 1..Len(t) |->
        IF /\ WordBoundary(t, i - 1)
           /\ i + 10 <= Len(t)
           /\ AllIn(t, i, i + 3, IsUpper)
           /\ t[i + 4] = "0"
           /\ AllIn(t, i + 5, i + 10, IsUpperOrDigit)
           /\ WordBoundary(t, i + 10)
        THEN i + 10 ELSE 0]

\* ------------------------------------------------------------------------
\* extractor.py: the extraction functions.  Each returns list(set(...)), a
\* list without duplicates in no particular order: modelled as the set.
\* ------------------------------------------------------------------------

\* extract_bank_accounts without the rule that drops a phone number
extract_bank_accounts_unfiltered(t) ==
    {m \in FindAll(t, BANK_ACCOUNT_PATTERN(t)) : ~(Len(m) < 9)}

extract_bank_accounts(t) ==
    {m \in FindAll(t, BANK_ACCOUNT_PATTERN(t)) :
        /\ ~(Len(m) = 10 /\ m[1] \in {"6", "7", "8", "9"})
        /\ ~(Len(m) < 9)}

email_domains ==
    { <<"g", "m", "a", "i", "l">>, <<"y", "a", "h", "o", "o">>,
      <<"h", "o", "t", "m", "a", "i", "l">>, <<"o", "u", "t", "l", "o", "o", "k">>,
      <<"p", "r", "o", "t", "o", "n">>, <<"m", "a", "i", "l">> }

\* m.split('@')[1] of a match, which holds exactly one '@'
AfterAt(m) ==
    LET p == CHOOSE k \in 1..Len(m) : m[k] = "@" IN SubSeq(m, p + 1, Len(m))

\* extract_upi_ids comparing the domain as it is written
extract_upi_ids_cased(t) ==
    {m \in FindAll(t, UPI_ID_PATTERN(t)) : AfterAt(m) \notin email_domains}

extract_upi_ids(t) ==
    {m \in FindAll(t, UPI_ID_PATTERN(t)) : Lower(AfterAt(m)) \notin email_domains}

IsNotPhoneNoise(c) == ~(c = "+" \/ c = "-" \/ IsSpace(c))

\* the normalisation of one match; <<>> when it is dropped
NormalizePhone(m) ==
    LET stripped == SelectSeq(m, IsNotPhoneNoise)
        digits == IF StartsWithAt(stripped, 1, <<"9", "1">>, FALSE) /\ Len(stripped) > 10
                  THEN SubSeq(stripped, 3, Len(stripped))
                  ELSE stripped
    IN  IF Len(digits) = 10 THEN digits ELSE <<>>

extract_phone_numbers(t) ==
    {NormalizePhone(m) : m \in FindAll(t, PHONE_PATTERN(t))} \ {<<>>}

extract_urls(t) ==
    FindAll(t, URL_PATTERN(t)) \cup FindAll(t, SHORT_URL_PATTERN(t))

extract_emails(t) == FindAll(t, EMAIL_PATTERN(t))

extract_ifsc_codes(t) == FindAll(t, IFSC_PATTERN(t))

\* ------------------------------------------------------------------------
\* Python values: a str, or something that is not a str (None).  A str of
\* the model is held by its name in TextTable; Chars gives its characters.
\*   account   "Send money to account 1234567890123 IFSC SBIN0001234"
\*   upi       "or pay via merchant@ybl"
\*   keyword   "send OTP"
\*   contact   "call 9876543210 www.kyc.in a@gmail.com"
\*   empty     ""
\*   reply     "Ji, call me on 9876543210", a text of the reply generator
\*   fallback1 .. fallback8   the strings of _get_fallback_response
\* ------------------------------------------------------------------------

TextTable ==
    [account |->
         <<"S", "e", "n", "d", " ", "m", "o", "n", "e", "y", " ", "t", "o",
           " ", "a", "c", "c", "o", "u", "n", "t", " ", "1", "2", "3", "4",
           "5", "6", "7", "8", "9", "0", "1", "2", "3", " ", "I", "F", "S",
           "C", " ", "S", "B", "I", "N", "0", "0", "0", "1", "2", "3", "4">>,
     upi |->
         <<"o", "r", " ", "p", "a", "y", " ", "v", "i", "a", " ", "m", "e",
           "r", "c", "h", "a", "n", "t", "@", "y", "b", "l">>,
     keyword |->
         <<"s", "e", "n", "d", " ", "O", "T", "P">>,
     contact |->
         <<"c", "a", "l", "l", " ", "9", "8", "7", "6", "5", "4", "3", "2",
           "1", "0", " ", "w", "w", "w", ".", "k", "y", "c", ".", "i", "n",
           " ", "a", "@", "g", "m", "a", "i", "l", ".", "c", "o", "m">>,
     empty |-> <<>>,
     reply |->
         <<"J", "i", ",", " ", "c", "a", "l", "l", " ", "m", "e", " ", "o", "n",
           " ", "9", "8", "7", "6", "5", "4", "3", "2", "1", "0">>,
     fallback1 |->
         <<"J", "i", " ", "j", "i", ",", " ", "p", "l", "e", "a", "s", "e",
           " ", "t", "e", "l", "l", " ", "m", "e", " ", "m", "o", "r", "e",
           " ", "a", "b", "o", "u", "t", " ", "t", "h", "i", "s", ".", " ",
           "H", "o", "w", " ", "d", "o", " ", "I", " ", "p", "r", "o", "c",
           "e", "e", "d", "?">>,
     fallback2 |->
         <<"O", "k", "a", "y", " ", "b", "e", "t", "a", ",", " ", "b", "u",
           "t", " ", "h", "o", "w", " ", "w", "i", "l", "l", " ", "I", " ",
           "r", "e", "c", "e", "i", "v", "e", " ", "t", "h", "e", " ", "m",
           "o", "n", "e", "y", "?", " ", "W", "h", "a", "t", " ", "d", "e",
           "t", "a", "i", "l", "s", " ", "y", "o", "u", " ", "n", "e", "e",
           "d", "?">>,
     fallback3 |->
         <<"T", "h", "i", "s", " ", "s", "o", "u", "n", "d", "s", " ", "i",
           "n", "t", "e", "r", "e", "s", "t", "i", "n", "g", ".", " ", "W",
           "h", "e", "r", "e", " ", "s", "h", "o", "u", "l", "d", " ", "I",
           " ", "s", "e", "n", "d", " ", "t", "h", "e", " ", "p", "a", "y",
           "m", "e", "n", "t", "?">>,
     fallback4 |->
         <<"I", " ", "a", "m", " ", "i", "n", "t", "e", "r", "e", "s", "t",
           "e", "d", ",", " ", "b", "u", "t", " ", "f", "i", "r", "s", "t",
           " ", "t", "e", "l", "l", " ", "m", "e", " ", "y", "o", "u", "r",
           " ", "b", "a", "n", "k", " ", "d", "e", "t", "a", "i", "l", "s",
           " ", "f", "o", "r", " ", "v", "e", "r", "i", "f", "i", "c", "a",
           "t", "i", "o", "n", ".">>,
     fallback5 |->
         <<"M", "y", " ", "h", "u", "s", "b", "a", "n", "d", " ", "i", "s",
           " ", "a", "s", "k", "i", "n", "g", " ", "-", " ", "p", "l", "e",
           "a", "s", "e", " ", "s", "h", "a", "r", "e", " ", "y", "o", "u",
           "r", " ", "U", "P", "I", " ", "I", "D", " ", "s", "o", " ", "w",
           "e", " ", "c", "a", "n", " ", "v", "e", "r", "i", "f", "y", ".">>,
     fallback6 |->
         <<"H", "a", "a", "n", " ", "j", "i", ",", " ", "I", " ", "u", "n",
           "d", "e", "r", "s", "t", "a", "n", "d", ".", " ", "W", "h", "a",
           "t", " ", "i", "s", " ", "t", "h", "e", " ", "a", "c", "c", "o",
           "u", "n", "t", " ", "n", "u", "m", "b", "e", "r", " ", "I", " ",
           "s", "h", "o", "u", "l", "d", " ", "n", "o", "t", "e", " ", "d",
           "o", "w", "n", "?">>,
     fallback7 |->
         <<"B", "e", "t", "a", ",", " ", "i", "s", " ", "t", "h", "i", "s",
           " ", "g", "e", "n", "u", "i", "n", "e", "?", " ", "P", "l", "e",
           "a", "s", "e", " ", "s", "h", "a", "r", "e", " ", "y", "o", "u",
           "r", " ", "c", "o", "n", "t", "a", "c", "t", " ", "n", "u", "m",
           "b", "e", "r", " ", "a", "l", "s", "o", ".">>,
     fallback8 |->
         <<"O", "k", " ", "j", "i", ",", " ", "I", " ", "w", "i", "l", "l",
           " ", "d", "o", " ", "t", "h", "e", " ", "n", "e", "e", "d", "f",
           "u", "l", ".", " ", "J", "u", "s", "t", " ", "t", "e", "l", "l",
           " ", "m", "e", " ", "w", "h", "e", "r", "e", " ", "t", "o", " ",
           "p", "a", "y", ".">>]

Str(name) == [kind |-> "str", name |-> name]

None == [kind |-> "none", name |-> ""]

\* isinstance(v, str)
IsStr(v) == v.kind = "str"

\* a str given by its characters
Lit(chars) == [kind |-> "str", name |-> "", chars |-> chars]

\* a value that is neither a str nor None: an int
IntValue(name) == [kind |-> "int", name |-> name]

Chars(v) == IF "chars" \in DOMAIN v THEN v.chars ELSE TextTable[v.name]

\* bool(v) of a str, an int or None
Truthy(v) ==
    \/ IsStr(v) /\ Chars(v) # <<>>
    \/ v.kind = "int" /\ v.name # "0"

NoIntelligence ==
    [bank_accounts |-> {}, upi_ids |-> {}, phone_numbers |-> {},
     phishing_links |-> {}, emails |-> {}, ifsc_codes |-> {},
     has_intelligence |-> FALSE]

\* extract_intelligence with has_intelligence taken from the kinds a report needs
extract_intelligence_valuable(text) ==
    IF ~Truthy(text) \/ ~IsStr(text) THEN NoIntelligence
    ELSE LET bank_accounts == extract_bank_accounts(Chars(text))
             upi_ids == extract_upi_ids(Chars(text))
             phone_numbers == extract_phone_numbers(Chars(text))
             phishing_links == extract_urls(Chars(text))
         IN  [bank_accounts |-> bank_accounts,
              upi_ids |-> upi_ids,
              phone_numbers |-> phone_numbers,
              phishing_links |-> phishing_links,
              emails |-> extract_emails(Chars(text)),
              ifsc_codes |-> extract_ifsc_codes(Chars(text)),
              has_intelligence |->
                  \/ bank_accounts # {} \/ upi_ids # {} \/ phone_numbers # {}
                  \/ phishing_links # {}]

extract_intelligence(text) ==
    IF ~Truthy(text) \/ ~IsStr(text) THEN NoIntelligence
    ELSE LET bank_accounts == extract_bank_accounts(Chars(text))
             upi_ids == extract_upi_ids(Chars(text))
             phone_numbers == extract_phone_numbers(Chars(text))
             phishing_links == extract_urls(Chars(text))
             emails == extract_emails(Chars(text))
             ifsc_codes == extract_ifsc_codes(Chars(text))
         IN  [bank_accounts |-> bank_accounts,
              upi_ids |-> upi_ids,
              phone_numbers |-> phone_numbers,
              phishing_links |-> phishing_links,
              emails |-> emails,
              ifsc_codes |-> ifsc_codes,
              has_intelligence |->
                  \/ bank_accounts # {} \/ upi_ids # {} \/ phone_numbers # {}
                  \/ phishing_links # {} \/ emails # {} \/ ifsc_codes # {}]

\* every value that can be a turn's text
Texts == {Str(n) : n \in DOMAIN TextTable} \cup {None}

\* extract_intelligence on the texts of the model, computed once
IntelligenceOf == [text \in Texts |-> extract_intelligence(text)]

\* ------------------------------------------------------------------------
\* honeypot.py: the conversation record
\* ------------------------------------------------------------------------

SUSPICIOUS_KEYWORDS ==
    << <<"u", "r", "g", "e", "n", "t">>,
       <<"v", "e", "r", "i", "f", "y", " ", "n", "o", "w">>,
       <<"a", "c", "c", "o", "u", "n", "t", " ", "b", "l", "o", "c", "k", "e", "d">>,
       <<"K", "Y", "C">>,
       <<"O", "T", "P">>,
       <<"l", "o", "t", "t", "e", "r", "y">>,
       <<"w", "i", "n", "n", "e", "r">>,
       <<"p", "r", "i", "z", "e">>,
       <<"b", "l", "o", "c", "k", "e", "d">>,
       <<"s", "u", "s", "p", "e", "n", "d", "e", "d">>,
       <<"i", "m", "m", "e", "d", "i", "a", "t", "e", "l", "y">>,
       <<"v", "e", "r", "i", "f", "y">>,
       <<"c", "l", "i", "c", "k", " ", "h", "e", "r", "e">>,
       <<"l", "i", "n", "k">>,
       <<"e", "x", "p", "i", "r", "e">> >>

DEFAULT_PERSONA == "elderly_uncle"

\* ConversationState.__init__.  The lists of extracted_intelligence are
\* sequences; created_at and agent_notes, which nothing reads, are left out.
ConversationState(session_id, persona) ==
    [session_id |-> session_id,
     persona |-> persona,
     messages |-> <<>>,
     extracted_intelligence |->
         [bankAccounts |-> <<>>, upiIds |-> <<>>, phoneNumbers |-> <<>>,
          phishingLinks |-> <<>>, suspiciousKeywords |-> <<>>],
     scam_detected |-> FALSE,
     scam_type |-> "None",
     turn_count |-> 0,
     callback_sent |-> FALSE]

\* the outcome of a call that may raise: the record as the call left it, and
\* whether an exception left the call
Done(st) == [st |-> st, raised |-> FALSE]

Raised(st) == [st |-> st, raised |-> TRUE]

\* for x in items: list.append(x), without the test of membership
RECURSIVE AppendAll(_, _)
AppendAll(list, items) ==
    IF items = {} THEN list
    ELSE LET x == CHOOSE y \in items : TRUE
         IN  AppendAll(Append(list, x), items \ {x})

\* for x in items: if x not in list: list.append(x), items being a list
\* without duplicates in no particular order
RECURSIVE AppendNew(_, _)
AppendNew(list, items) ==
    IF items = {} THEN list
    ELSE LET x == CHOOSE y \in items : TRUE
         IN  AppendNew(IF x \in Range(list) THEN list ELSE Append(list, x),
                       items \ {x})

\* keyword.lower() in text_lower, for every keyword of the list and every str
\* of the model, computed once
KeywordIn ==
    [text \in {v \in Texts : IsStr(v)} |->
        [k \in DOMAIN SUSPICIOUS_KEYWORDS |->
            Contains(Lower(Chars(text)), Lower(SUSPICIOUS_KEYWORDS[k]))]]

\* the keyword loop of _extract_and_merge, from keyword k on
RECURSIVE MergeKeywords(_, _, _)
MergeKeywords(list, text, k) ==
    IF k > Len(SUSPICIOUS_KEYWORDS) THEN list
    ELSE LET keyword == SUSPICIOUS_KEYWORDS[k]
         IN  MergeKeywords(
                 IF KeywordIn[text][k] /\ keyword \notin Range(list)
                 THEN Append(list, keyword) ELSE list,
                 text, k + 1)

\* the merges of _extract_and_merge, intel being what extract_intelligence
\* returned for the text: text.lower() raises AttributeError on a text that
\* is not a str, after the four merges
MergeIntelligence(s, text, intel) ==
    LET merged == [s.extracted_intelligence EXCEPT
                     !.bankAccounts = AppendNew(@, intel.bank_accounts),
                     !.upiIds = AppendNew(@, intel.upi_ids),
                     !.phoneNumbers = AppendNew(@, intel.phone_numbers),
                     !.phishingLinks = AppendNew(@, intel.phishing_links)]
    IN  IF ~IsStr(text)
        THEN Raised([s EXCEPT !.extracted_intelligence = merged])
        ELSE Done([s EXCEPT !.extracted_intelligence =
                       [merged EXCEPT !.suspiciousKeywords =
                            MergeKeywords(@, text, 1)]])

\* ConversationState._extract_and_merge
extract_and_merge(s, text) == MergeIntelligence(s, text, IntelligenceOf[text])

\* add_message that puts the entry in the place of the turn sequence
add_message_overwrites(s, role, content) ==
    LET s1 == [s EXCEPT !.messages = <<[role |-> role, content |-> content]>>,
                        !.turn_count = @ + 1]
    IN  IF role = "scammer" THEN extract_and_merge(s1, content) ELSE Done(s1)

\* add_message that raises on a record that holds an entry without a text
add_message_poisoned(s, role, content) ==
    LET s1 == [s EXCEPT !.messages = Append(@, [role |-> role, content |-> content]),
                        !.turn_count = @ + 1]
    IN  IF \E i \in DOMAIN s.messages : ~IsStr(s.messages[i].content)
        THEN Raised(s1)
        ELSE IF role = "scammer" THEN extract_and_merge(s1, content) ELSE Done(s1)

\* add_message that gives the text of every entry to _extract_and_merge
add_message_any_role(s, role, content) ==
    extract_and_merge(
        [s EXCEPT !.messages = Append(@, [role |-> role, content |-> content]),
                  !.turn_count = @ + 1],
        content)

\* ConversationState.add_message; the timestamp of an entry is left out
add_message(s, role, content) ==
    LET s1 == [s EXCEPT !.messages = Append(@, [role |-> role, content |-> content]),
                        !.turn_count = @ + 1]
    IN  IF role = "scammer" THEN extract_and_merge(s1, content) ELSE Done(s1)

\* RebuildItem without the test of the sender: every entry of the history
\* goes through _extract_and_merge
RebuildItemAnySender(s, msg) ==
    extract_and_merge(
        [s EXCEPT !.messages = Append(@, [role |-> msg.sender, content |-> msg.text])],
        msg.text)

\* the body of the loop of rebuild_from_history, for one item of the history
RebuildItem(s, msg) ==
    LET s1 == [s EXCEPT !.messages =
                   Append(@, [role |-> msg.sender, content |-> msg.text])]
    IN  IF msg.sender = "scammer" THEN extract_and_merge(s1, msg.text)
        ELSE Done(s1)

\* the loop of rebuild_from_history from item i on, r being the outcome of
\* the items before it, and the assignment to turn_count that follows the
\* loop; an exception ends the loop
RECURSIVE RebuildLoop(_, _, _)
RebuildLoop(r, conversation_history, i) ==
    IF r.raised THEN r
    ELSE IF i > Len(conversation_history)
    THEN Done([r.st EXCEPT !.turn_count = Len(r.st.messages)])
    ELSE RebuildLoop(RebuildItem(r.st, conversation_history[i]),
                     conversation_history, i + 1)

\* rebuild_from_history that also empties extracted_intelligence
rebuild_from_history_resets(s, conversation_history) ==
    RebuildLoop(Done([s EXCEPT !.messages = <<>>,
                               !.extracted_intelligence =
                                   ConversationState("", "").extracted_intelligence]),
                conversation_history, 1)

\* ConversationState.rebuild_from_history
rebuild_from_history(s, conversation_history) ==
    RebuildLoop(Done([s EXCEPT !.messages = <<>>]), conversation_history, 1)

\* has_valuable_intelligence that counts the keywords too
has_valuable_intelligence_keywords(s) ==
    \/ Len(s.extracted_intelligence.bankAccounts) > 0
    \/ Len(s.extracted_intelligence.upiIds) > 0
    \/ Len(s.extracted_intelligence.phishingLinks) > 0
    \/ Len(s.extracted_intelligence.phoneNumbers) > 0
    \/ Len(s.extracted_intelligence.suspiciousKeywords) > 0

\* ConversationState.has_valuable_intelligence
has_valuable_intelligence(s) ==
    \/ Len(s.extracted_intelligence.bankAccounts) > 0
    \/ Len(s.extracted_intelligence.upiIds) > 0
    \/ Len(s.extracted_intelligence.phishingLinks) > 0
    \/ Len(s.extracted_intelligence.phoneNumbers) > 0

\* what get_or_create_session leaves: the outcome r of the replay, if any,
\* and whether the history was replayed
Session(r, rebuilt) == [st |-> r.st, raised |-> r.raised, rebuilt |-> rebuilt]

\* get_or_create_session that replays a history as long as the turn sequence
get_or_create_session_ge(store, session_id, persona, conversation_history) ==
    LET session == IF session_id \in DOMAIN store THEN store[session_id]
                   ELSE ConversationState(session_id, persona)
        rebuild == /\ conversation_history # <<>>
                   /\ Len(conversation_history) >= Len(session.messages)
    IN  Session(IF rebuild THEN rebuild_from_history(session, conversation_history)
                ELSE Done(session),
                rebuild)

\* get_or_create_session on the store.  The record is in the store before
\* the replay starts, so what a replay that raises has done stays in the
\* store.
get_or_create_session(store, session_id, persona, conversation_history) ==
    LET session == IF session_id \in DOMAIN store THEN store[session_id]
                   ELSE ConversationState(session_id, persona)
        rebuild == /\ conversation_history # <<>>
                   /\ Len(conversation_history) > Len(session.messages)
    IN  Session(IF rebuild THEN rebuild_from_history(session, conversation_history)
                ELSE Done(session),
                rebuild)

\* ------------------------------------------------------------------------
\* honeypot.py: the collaborators
\* ------------------------------------------------------------------------

\* message.strip() is empty
IsBlank(chars) == \A k \in DOMAIN chars : IsSpace(chars[k])

EmptyMessageResult == [is_scam |-> FALSE, reason |-> "Empty or invalid message"]

\* detector.validate_scam_response on the object parsed from the model's
\* text: is_scam as the model gave it, the reason replaced when it is blank
validate_scam_response(data) ==
    [is_scam |-> data.is_scam,
     reason |-> IF data.reason = "" THEN "No reason provided" ELSE data.reason]

\* detect_scam that takes a response it cannot parse for a scam verdict
detect_scam_suspects(message, answer) ==
    IF ~Truthy(message) \/ ~IsStr(message) \/ IsBlank(Chars(message))
    THEN EmptyMessageResult
    ELSE CASE answer.kind = "raises" ->
                [is_scam |-> FALSE, reason |-> "Detection failed"]
           [] answer.kind = "empty" ->
                [is_scam |-> FALSE, reason |-> "Empty response from model"]
           [] answer.kind = "noparse" ->
                [is_scam |-> TRUE, reason |-> "Response format error"]
           [] OTHER -> validate_scam_response(answer)

\* detector.detect_scam: answer is what the call to the model does, one of
\* DetectAnswers: it raises (an API error, a timeout), returns no text,
\* returns a text no JSON object is found in, or a text with a JSON object.
\* Every failure ends in is_scam = False and nothing is raised.
detect_scam(message, answer) ==
    IF ~Truthy(message) \/ ~IsStr(message) \/ IsBlank(Chars(message))
    THEN EmptyMessageResult
    ELSE CASE answer.kind = "raises" ->
                [is_scam |-> FALSE, reason |-> "Detection failed"]
           [] answer.kind = "empty" ->
                [is_scam |-> FALSE, reason |-> "Empty response from model"]
           [] answer.kind = "noparse" ->
                [is_scam |-> FALSE, reason |-> "Response format error"]
           [] OTHER -> validate_scam_response(answer)

\* the list of _get_fallback_response, by the names of its strings
fallbacks ==
    <<"fallback1", "fallback2", "fallback3", "fallback4",
      "fallback5", "fallback6", "fallback7", "fallback8">>

\* _get_fallback_response without the rotation
get_fallback_response_unrotated(s) == Str(fallbacks[1])

\* _get_fallback_response
get_fallback_response(s) == Str(fallbacks[(s.turn_count % Len(fallbacks)) + 1])

\* generate_contextual_response: client tells whether the Gemini client
\* exists, gen is what the call to it does ("raises", or the text it returns)
generate_contextual_response(s, client, gen) ==
    IF ~client THEN get_fallback_response(s)
    ELSE IF gen.kind = "raises" THEN get_fallback_response(s)
    ELSE gen.text

\* the payload with the Counterparty entries alone counted
Payload_counterparty_only(s) ==
    [sessionId |-> s.session_id,
     scamDetected |-> s.scam_detected,
     totalMessagesExchanged |->
         Cardinality({i \in DOMAIN s.messages : s.messages[i].role = "scammer"}),
     extractedIntelligence |-> s.extracted_intelligence]

\* the payload of send_guvi_callback; agentNotes is left out
Payload(s) ==
    [sessionId |-> s.session_id,
     scamDetected |-> s.scam_detected,
     totalMessagesExchanged |-> s.turn_count,
     extractedIntelligence |-> s.extracted_intelligence]

NoPayload ==
    [sessionId |-> "", scamDetected |-> FALSE, totalMessagesExchanged |-> 0,
     extractedIntelligence |-> ConversationState("", "").extracted_intelligence]

\* send_guvi_callback without the test of callback_sent
send_guvi_callback_unlatched(s, ack) ==
    IF ack.raised
    THEN [st |-> s, ret |-> FALSE, posted |-> TRUE, payload |-> Payload(s),
          raised |-> FALSE]
    ELSE IF ack.status_code = 200
    THEN [st |-> [s EXCEPT !.callback_sent = TRUE], ret |-> TRUE, posted |-> TRUE,
          payload |-> Payload(s), raised |-> FALSE]
    ELSE [st |-> s, ret |-> FALSE, posted |-> TRUE, payload |-> Payload(s),
          raised |-> FALSE]

\* send_guvi_callback without the try: an exception of requests.post leaves it
send_guvi_callback_raises(s, ack) ==
    IF s.callback_sent
    THEN [st |-> s, ret |-> TRUE, posted |-> FALSE, payload |-> NoPayload,
          raised |-> FALSE]
    ELSE IF ack.raised
    THEN [st |-> s, ret |-> FALSE, posted |-> TRUE, payload |-> Payload(s),
          raised |-> TRUE]
    ELSE IF ack.status_code = 200
    THEN [st |-> [s EXCEPT !.callback_sent = TRUE], ret |-> TRUE, posted |-> TRUE,
          payload |-> Payload(s), raised |-> FALSE]
    ELSE [st |-> s, ret |-> FALSE, posted |-> TRUE, payload |-> Payload(s),
          raised |-> FALSE]

\* send_guvi_callback: ack is what requests.post does, an exception
\* (a timeout is one) or a response with a status code
send_guvi_callback(s, ack) ==
    IF s.callback_sent
    THEN [st |-> s, ret |-> TRUE, posted |-> FALSE, payload |-> NoPayload,
          raised |-> FALSE]
    ELSE IF ack.raised
    THEN [st |-> s, ret |-> FALSE, posted |-> TRUE, payload |-> Payload(s),
          raised |-> FALSE]
    ELSE IF ack.status_code = 200
    THEN [st |-> [s EXCEPT !.callback_sent = TRUE], ret |-> TRUE, posted |-> TRUE,
          payload |-> Payload(s), raised |-> FALSE]
    ELSE [st |-> s, ret |-> FALSE, posted |-> TRUE, payload |-> Payload(s),
          raised |-> FALSE]

\* ------------------------------------------------------------------------
\* honeypot.py: process_scam_message
\* ------------------------------------------------------------------------

\* the except clause left out: the exception leaves process_scam_message
ErrorResultEscapes == [status |-> "raised", message |-> "exception"]

\* the result of the except clause
ErrorResult == [status |-> "error", message |-> "exception"]

SuccessResult(reply) == [status |-> "success", reply |-> reply]

\* the test before detect_scam left out: every turn is classified
NotYetDetectedAlways(s) == TRUE

\* the test before detect_scam replaced by one for the session's first turn
NotYetDetectedFirstTurn(s) == Len(s.messages) <= 1

\* if not session.scam_detected
NotYetDetected(s) == ~s.scam_detected

\* ------------------------------------------------------------------------
\* The inputs and the bounds
\* ------------------------------------------------------------------------

\* a store that holds this many turns in all, those of the requests in
\* flight counted in, takes no further call and accepts no further request
MaxTurns == 3

\* the longest supplied history
MaxHistory == 3

SessionIds == {"s1", "s2"}

\* the texts of incoming messages: strings and a value that is no str
Messages == {Str("account"), Str("keyword"), None}

\* the entries a supplied history is made of
HistoryItems ==
    {[sender |-> "scammer", text |-> Str("upi")],
     [sender |-> "user", text |-> Str("keyword")],
     [sender |-> "scammer", text |-> None]}

\* a transcript after which turn_count is the number of fallback strings
LongHistory ==
    [i \in 1..7 |-> IF i % 2 = 1 THEN [sender |-> "scammer", text |-> Str("upi")]
                    ELSE [sender |-> "user", text |-> Str("keyword")]]

RECURSIVE SeqsUpTo(_, _)
SeqsUpTo(S, n) ==
    IF n = 0 THEN {<<>>}
    ELSE LET shorter == SeqsUpTo(S, n - 1)
         IN  shorter \cup {Append(h, x) : h \in {q \in shorter : Len(q) = n - 1}, x \in S}

\* the supplied histories: transcripts as a caller keeps them, the
\* counterparty and the agent taking turns (honeypot.py, lines 477-480)
Histories ==
    {h \in SeqsUpTo(HistoryItems, MaxHistory) :
        \A i \in DOMAIN h : h[i].sender = (IF i % 2 = 1 THEN "scammer" ELSE "user")}
        \cup {LongHistory}

\* session ids are keys of a dict and nothing else: the first session a
\* store sees is called s1; known are the sessions seen so far
Admitted(known) == IF "s1" \in known THEN SessionIds ELSE {"s1"}

\* the caller of the first session supplies transcripts, the caller of any
\* other session none
HistoriesOf(sid) == IF sid = "s1" THEN Histories ELSE {<<>>}

\* what the call to the classification model does
DetectAnswers ==
    {[kind |-> "raises", is_scam |-> FALSE, reason |-> ""],
     [kind |-> "empty", is_scam |-> FALSE, reason |-> ""],
     [kind |-> "noparse", is_scam |-> FALSE, reason |-> ""],
     [kind |-> "json", is_scam |-> TRUE, reason |-> "model: scam"],
     [kind |-> "json", is_scam |-> FALSE, reason |-> "model: legitimate"]}

\* what the reply generator does
GenOutcomes == {[kind |-> "raises", text |-> None],
                [kind |-> "text", text |-> Str("reply")]}

\* what requests.post does
AckOutcomes ==
    {[raised |-> FALSE, status_code |-> 200],
     [raised |-> FALSE, status_code |-> 202],
     [raised |-> FALSE, status_code |-> 500],
     [raised |-> TRUE, status_code |-> 0]}

\* ------------------------------------------------------------------------
\* main.py: the requests and the responses
\* ------------------------------------------------------------------------

\* the texts of the messages of requests; the request model admits only a
\* str as text
RequestTexts == {Str("account"), Str("upi"), Str("empty")}

\* AnalyzeRequest, conversationHistory being left at its default
Requests ==
    {[sessionId |-> sid, text |-> text, history |-> <<>>] :
        sid \in SessionIds, text \in RequestTexts}

NoRequest == [sessionId |-> "", text |-> None, history |-> <<>>]

\* what analyze_message returns for a result of process_scam_message
Response(result) ==
    IF result.status = "success"
    THEN [status_code |-> 200,
          body |-> [status |-> "success", reply |-> result.reply]]
    ELSE [status_code |-> 200,
          body |-> [status |-> "error", message |-> result.message]]

NoResponse == [status_code |-> 0, body |-> ErrorResult]

\* ------------------------------------------------------------------------
\* The state machine
\* ------------------------------------------------------------------------

VARIABLES
    sessions,      \* _sessions: session id -> ConversationState
    client,        \* whether the Gemini client exists (set at import)
    entry,         \* the module run as __main__: honeypot.py or main.py
    pending,       \* the requests accepted whose handler has not started
    running,       \* the request whose handler the event loop is running
    response,      \* the response to the latest request handled
    last,          \* what the latest process_scam_message call went through
    processed,     \* session id -> the Counterparty texts given to extraction
    acknowledged,  \* the sessions a report of which got a 2xx response
    served,        \* session id -> the requests handled, in order
    detections,    \* session id -> the number of calls of detect_scam
    reports,       \* session id -> what requests.post did, request by request
    failed,        \* the sessions a call for which returned the error result
    extraction     \* extractor.py run by itself: the input, the result and
                   \* the number of runs of extract_intelligence on it

vars == <<sessions, client, entry, pending, running, response, last, processed,
          acknowledged, served, detections, reports, failed, extraction>>

NoExtraction == [text |-> None, result |-> NoIntelligence, runs |-> 0, same |-> TRUE]

NoCall ==
    [session_id |-> "", message |-> None, history |-> <<>>, existed |-> FALSE,
     pre |-> ConversationState("", DEFAULT_PERSONA),
     got |-> ConversationState("", DEFAULT_PERSONA), rebuilt |-> FALSE,
     reached |-> FALSE, merged |-> ConversationState("", DEFAULT_PERSONA),
     classified |-> FALSE, posted |-> FALSE, payload |-> NoPayload,
     answer |-> [kind |-> "unasked", is_scam |-> FALSE, reason |-> ""],
     gen |-> [kind |-> "unasked", text |-> None],
     ack |-> [raised |-> TRUE, status_code |-> 0], failed |-> {},
     store |-> [sid \in {} |-> ConversationState(sid, DEFAULT_PERSONA)],
     result |-> ErrorResult]

Init ==
    /\ sessions = [sid \in {} |-> ConversationState(sid, DEFAULT_PERSONA)]
    /\ client \in BOOLEAN
    /\ entry \in {"honeypot.py", "main.py"}
    /\ pending = {}
    /\ running = NoRequest
    /\ response = NoResponse
    /\ last = NoCall
    /\ processed = [sid \in SessionIds |-> {}]
    /\ acknowledged = {}
    /\ served = [sid \in SessionIds |-> <<>>]
    /\ detections = [sid \in SessionIds |-> 0]
    /\ reports = [sid \in SessionIds |-> <<>>]
    /\ failed = {}
    /\ extraction = NoExtraction

TurnsOf(store, sid) ==
    IF sid \in DOMAIN store
    THEN Max({Len(store[sid].messages), store[sid].turn_count})
    ELSE 0

RECURSIVE SumTurns(_, _)
SumTurns(store, sids) ==
    IF sids = {} THEN 0
    ELSE LET sid == CHOOSE x \in sids : TRUE
         IN  TurnsOf(store, sid) + SumTurns(store, sids \ {sid})

\* the turns the store holds, with the two of every request in flight
Load ==
    SumTurns(sessions, DOMAIN sessions)
        + 2 * (Cardinality(pending) + (IF running = NoRequest THEN 0 ELSE 1))

Is2xx(ack) == ~ack.raised /\ ack.status_code \in 200..299

\* the entries a call has appended to the turn sequence: all of it after a
\* replay, what follows the earlier entries otherwise
Appended(tr, post) ==
    IF tr.rebuilt THEN post.messages
    ELSE SubSeq(post.messages, Len(tr.pre.messages) + 1, Len(post.messages))

\* the texts of the Counterparty entries among them: each went through
\* _extract_and_merge
CounterpartyTexts(entries) ==
    {entries[i].content : i \in {j \in DOMAIN entries : entries[j].role = "scammer"}}

\* the end of a call: the record as the call left it is in the store, and
\* last tells what the call went through
Return(session_id, st, trace) ==
    /\ sessions' = (session_id :> st) @@ sessions
    /\ last' = trace
    /\ processed' =
           [processed EXCEPT ![session_id] =
                @ \cup CounterpartyTexts(Appended(trace, st))]
    /\ acknowledged' =
           IF trace.posted /\ Is2xx(trace.ack)
           THEN acknowledged \cup {session_id}
           ELSE acknowledged
    /\ detections' =
           [detections EXCEPT ![session_id] = IF trace.classified THEN @ + 1 ELSE @]
    /\ reports' =
           [reports EXCEPT ![session_id] =
                IF trace.posted THEN Append(@, trace.ack) ELSE @]
    /\ failed' =
           IF trace.result.status = "success" THEN failed
           ELSE failed \cup {session_id}
    /\ UNCHANGED <<client, entry, pending, extraction>>

\* what a collaborator that the call does not consult is taken to do
NoAnswer == [kind |-> "unasked", is_scam |-> FALSE, reason |-> ""]

NoGen == [kind |-> "unasked", text |-> None]

NoAck == CHOOSE a \in AckOutcomes : a.raised

\* one call of process_scam_message, statement by statement; what a
\* collaborator does is drawn where the call consults it.  last keeps the
\* record before the call (pre), as get_or_create_session left it (got), as
\* it was when the report gate was evaluated (merged, with reached telling
\* whether the call got that far), whether detect_scam was called
\* (classified) and a report request sent (posted), the store and the
\* sessions with an error result before the call (store, failed).  Every exception ends
\* in the error result.
process_scam_message(session_id, message, conversation_history) ==
    \E existed \in {session_id \in DOMAIN sessions} :
    \E pre \in {IF existed THEN sessions[session_id]
                ELSE ConversationState(session_id, DEFAULT_PERSONA)} :
    \E g \in {get_or_create_session(sessions, session_id, DEFAULT_PERSONA,
                                    conversation_history)} :
    \E trace \in {[session_id |-> session_id, message |-> message,
                   history |-> conversation_history, existed |-> existed,
                   pre |-> pre, got |-> g.st, rebuilt |-> g.rebuilt,
                   reached |-> FALSE, merged |-> pre, classified |-> FALSE,
                   posted |-> FALSE, payload |-> NoPayload,
                   answer |-> NoAnswer, gen |-> NoGen, ack |-> NoAck,
                   failed |-> failed, store |-> sessions,
                   result |-> ErrorResult]} :
      IF g.raised THEN Return(session_id, g.st, trace)
      ELSE
      \E a1 \in {add_message(g.st, "scammer", message)} :
      IF a1.raised THEN Return(session_id, a1.st, trace)
      ELSE
      \E classify \in {NotYetDetected(a1.st)} :
      \E answer \in IF classify /\ detect_scam(message, NoAnswer) # EmptyMessageResult
                    THEN DetectAnswers ELSE {NoAnswer} :
      \E scam_result \in {detect_scam(message, answer)} :
      \E s2 \in {IF classify
                 THEN [a1.st EXCEPT !.scam_detected = scam_result.is_scam,
                                    !.scam_type = scam_result.reason]
                 ELSE a1.st} :
      \E gen \in IF client THEN GenOutcomes ELSE {NoGen} :
      \E reply \in {generate_contextual_response(s2, client, gen)} :
      \E a2 \in {add_message(s2, "user", reply)} :
      IF a2.raised
      THEN Return(session_id, a2.st, [trace EXCEPT !.classified = classify])
      ELSE
      \E gate \in {a2.st.scam_detected /\ has_valuable_intelligence(a2.st)} :
      \E ack \in IF gate /\ send_guvi_callback(a2.st, NoAck).posted
                 THEN AckOutcomes ELSE {NoAck} :
      \E cb \in {IF gate THEN send_guvi_callback(a2.st, ack)
                 ELSE [st |-> a2.st, ret |-> FALSE, posted |-> FALSE,
                       payload |-> NoPayload, raised |-> FALSE]} :
      \E reached \in {[trace EXCEPT !.classified = classify,
                                    !.reached = TRUE, !.merged = a2.st,
                                    !.posted = cb.posted,
                                    !.payload = cb.payload,
                                    !.answer = answer, !.gen = gen,
                                    !.ack = ack]} :
      IF cb.raised THEN Return(session_id, cb.st, reached)
      ELSE Return(session_id, cb.st,
                  [reached EXCEPT !.result = SuccessResult(reply)])

\* honeypot.py run as a script, or imported by a caller: the function is
\* called, one call after the other
ProcessScamMessage ==
    /\ entry = "honeypot.py"
    /\ Load < MaxTurns
    /\ \E sid \in Admitted(DOMAIN sessions), message \in Messages :
          \E history \in HistoriesOf(sid) :
              process_scam_message(sid, message, history)
    /\ UNCHANGED <<running, response, served>>

\* main.py run as a script: a request arrives and is accepted
Submit ==
    /\ entry = "main.py"
    /\ Load < MaxTurns
    /\ \E request \in Requests \ (pending \cup {running}) :
          /\ request.sessionId \in
                 Admitted(DOMAIN sessions \cup {running.sessionId}
                              \cup {other.sessionId : other \in pending})
          /\ pending' = pending \cup {request}
    /\ UNCHANGED <<sessions, client, entry, running, response, last, processed,
                   acknowledged, served, detections, reports, failed, extraction>>

\* the event loop, which runs one coroutine at a time, starts the handler of
\* an accepted request; analyze_message has no await, so the loop runs
\* nothing else until the handler has returned
Start ==
    /\ running = NoRequest
    /\ \E request \in pending :
          /\ running' = request
          /\ pending' = pending \ {request}
    /\ UNCHANGED <<sessions, client, entry, response, last, processed,
                   acknowledged, served, detections, reports, failed, extraction>>

\* analyze_message, from its first statement to its return
analyze_message ==
    /\ running # NoRequest
    /\ process_scam_message(running.sessionId, running.text, running.history)
    /\ response' = Response(last'.result)
    /\ served' =
           [served EXCEPT ![running.sessionId] =
                Append(@, [text |-> running.text,
                           status |-> last'.result.status,
                           overlapped |-> \E other \in pending :
                                             other.sessionId = running.sessionId])]
    /\ running' = NoRequest

Next == ProcessScamMessage \/ Submit \/ Start \/ analyze_message

Spec == Init /\ [][Next]_vars

\* ------------------------------------------------------------------------
\* honeypot.py called for one session, with longer transcripts: the calls a
\* caller makes that supplies a transcript again and again
\* ------------------------------------------------------------------------

\* a record that holds this many turns takes no further call
MaxReplayTurns == 5

\* the longest transcript supplied
MaxReplayHistory == 5

\* after this many calls of detect_scam no further call is made
MaxReplayDetections == 2

\* the texts of the messages: a string without a valuable finding and a
\* value that is no str
ReplayMessages == {Str("keyword"), None}

ReplayItems ==
    {[sender |-> "scammer", text |-> Str("keyword")],
     [sender |-> "user", text |-> Str("keyword")],
     [sender |-> "scammer", text |-> None]}

\* the transcripts, the counterparty and the agent taking turns
ReplayHistories ==
    {h \in SeqsUpTo(ReplayItems, MaxReplayHistory) :
        \A i \in DOMAIN h : h[i].sender = (IF i % 2 = 1 THEN "scammer" ELSE "user")}

ReplayInit ==
    /\ sessions = [sid \in {} |-> ConversationState(sid, DEFAULT_PERSONA)]
    /\ client = FALSE
    /\ entry = "honeypot.py"
    /\ pending = {}
    /\ running = NoRequest
    /\ response = NoResponse
    /\ last = NoCall
    /\ processed = [sid \in SessionIds |-> {}]
    /\ acknowledged = {}
    /\ served = [sid \in SessionIds |-> <<>>]
    /\ detections = [sid \in SessionIds |-> 0]
    /\ reports = [sid \in SessionIds |-> <<>>]
    /\ failed = {}
    /\ extraction = NoExtraction

\* one call of process_scam_message for the session
Replay ==
    /\ entry = "honeypot.py"
    /\ Load < MaxReplayTurns
    /\ detections["s1"] < MaxReplayDetections
    /\ \E message \in ReplayMessages, history \in ReplayHistories :
          process_scam_message("s1", message, history)
    /\ UNCHANGED <<running, response, served>>

ReplayNext == Replay

ReplaySpec == ReplayInit /\ [][ReplayNext]_vars

\* ------------------------------------------------------------------------
\* extractor.py by itself: extract_intelligence on texts put together from
\* tokens, and on values that are no str
\* ------------------------------------------------------------------------

\* the most tokens in a text
MaxTokens == 2

ExtractTokens ==
    {<<"9", "8", "7", "6", "5", "4", "3", "2", "1", "0">>,
     <<"1", "2", "3">>,
     <<"5", "1", "2", "3", "4", "5", "6", "7", "8", "9">>,
     <<"9", "1">>,
     <<"+", "9", "1">>,
     <<"+", "9", "1", "-">>,
     <<"s", "o", "m", "e", "o", "n", "e", "@", "g", "m", "a", "i", "l">>,
     <<"s", "o", "m", "e", "o", "n", "e", "@", "P", "a", "y", "t", "m">>,
     <<"x", "@", "M", "A", "I", "L">>,
     <<".", "c", "o", "m">>}

\* what stands between two tokens
ExtractSeparators == {<<>>, <<" ">>}

RECURSIVE TokenTexts(_)
TokenTexts(n) ==
    IF n = 1 THEN ExtractTokens
    ELSE LET shorter == TokenTexts(n - 1)
         IN  shorter \cup {t \o sep \o tok : t \in shorter,
                                             sep \in ExtractSeparators,
                                             tok \in ExtractTokens}

ExtractInputs ==
    {Lit(t) : t \in TokenTexts(MaxTokens)} \cup {Lit(<<>>), None, IntValue("0"), IntValue("5")}

ExtractInit ==
    /\ sessions = [sid \in {} |-> ConversationState(sid, DEFAULT_PERSONA)]
    /\ client = FALSE
    /\ entry = "extractor.py"
    /\ pending = {}
    /\ running = NoRequest
    /\ response = NoResponse
    /\ last = NoCall
    /\ processed = [sid \in SessionIds |-> {}]
    /\ acknowledged = {}
    /\ served = [sid \in SessionIds |-> <<>>]
    /\ detections = [sid \in SessionIds |-> 0]
    /\ reports = [sid \in SessionIds |-> <<>>]
    /\ failed = {}
    /\ extraction \in {[NoExtraction EXCEPT !.text = text] : text \in ExtractInputs}

\* one call of extract_intelligence on the input; same tells whether the
\* call returned what the call before it returned
ExtractIntelligence ==
    /\ entry = "extractor.py"
    /\ extraction.runs < 2
    /\ \E result \in {extract_intelligence(extraction.text)} :
          extraction' = [text |-> extraction.text,
                         result |-> result,
                         runs |-> extraction.runs + 1,
                         same |-> extraction.runs = 0 \/ result = extraction.result]
    /\ UNCHANGED <<sessions, client, entry, pending, running, response, last,
                   processed, acknowledged, served, detections, reports, failed>>

ExtractNext == ExtractIntelligence

ExtractSpec == ExtractInit /\ [][ExtractNext]_vars

\* ------------------------------------------------------------------------
\* Properties of extractor.py
\* ------------------------------------------------------------------------

\* extract_intelligence has returned for the input
Ran == entry = "extractor.py" /\ extraction.runs >= 1

\* the characters of the input, none when it is no str
ExtractText == IF IsStr(extraction.text) THEN Chars(extraction.text) ELSE <<>>

\* t[i..e] is a run of digits with no digit on either side
IsDigitRun(t, i, e) ==
    /\ 1 <= i /\ i <= e /\ e <= Len(t)
    /\ \A k \in i..e : IsDigit(t[k])
    /\ (i = 1 \/ ~IsDigit(t[i - 1]))
    /\ (e = Len(t) \/ ~IsDigit(t[e + 1]))

\* the 10-digit runs starting with 6..9 that stand alone in t: no word
\* character on either side
StandaloneMobiles(t) ==
    {SubSeq(t, i, i + 9) :
        i \in {j \in 1..(Len(t) - 9) :
                 /\ IsDigitRun(t, j, j + 9)
                 /\ t[j] \in {"6", "7", "8", "9"}
                 /\ (j = 1 \/ ~IsWord(t[j - 1]))
                 /\ (j + 9 = Len(t) \/ ~IsWord(t[j + 10]))}}

\* C23: the BankAccount and PhoneNumber results of one extraction have no
\* literal in common, and a standalone 10-digit run starting with 6, 7, 8 or
\* 9 is in the PhoneNumber result and not in the BankAccount result
C23_BankPhoneDisjoint ==
    Ran =>
      /\ extraction.result.bank_accounts \cap extraction.result.phone_numbers = {}
      /\ \A m \in StandaloneMobiles(ExtractText) :
            /\ m \in extraction.result.phone_numbers
            /\ m \notin extraction.result.bank_accounts

\* a text with a standalone mobile number and an account number
C23_Witness ==
    /\ Ran
    /\ StandaloneMobiles(ExtractText) # {}
    /\ extraction.result.bank_accounts # {}
    /\ extraction.result.phone_numbers # {}

\* the tokens local@domain of t: between white space (or the ends of the
\* text), a local part of letters, digits, '.', '_', '-' that starts with a
\* word character, an '@', and a domain of two or more letters
UpiTokens(t) ==
    {SubSeq(t, w[1], w[2]) :
        w \in {v \in (1..Len(t)) \X (1..Len(t)) :
                 /\ (v[1] = 1 \/ IsSpace(t[v[1] - 1]))
                 /\ (v[2] = Len(t) \/ IsSpace(t[v[2] + 1]))
                 /\ IsWord(t[v[1]])
                 /\ \E l \in v[1]..(v[2] - 3) :
                       /\ \A k \in v[1]..l : IsUpiLocal(t[k])
                       /\ t[l + 1] = "@"
                       /\ \A k \in (l + 2)..v[2] : IsAlpha(t[k])}}

\* the domain token of a token local@domain
DomainToken(m) == SubSeq(m, 1 + CHOOSE k \in 1..Len(m) : m[k] = "@", Len(m))

ExcludedDomains ==
    { <<"g", "m", "a", "i", "l">>, <<"y", "a", "h", "o", "o">>,
      <<"h", "o", "t", "m", "a", "i", "l">>, <<"o", "u", "t", "l", "o", "o", "k">>,
      <<"p", "r", "o", "t", "o", "n">>, <<"m", "a", "i", "l">> }

\* C24: a token local@domain with an alphabetic domain token of two or more
\* letters is in the UpiId result if and only if its domain token in lower
\* case is none of gmail, yahoo, hotmail, outlook, proton, mail; no UpiId
\* returned has such a domain, and someone@gmail is never returned
C24_UpiIffNotEmailDomain ==
    Ran =>
      /\ \A m \in UpiTokens(ExtractText) :
            m \in extraction.result.upi_ids
              <=> Lower(DomainToken(m)) \notin ExcludedDomains
      /\ \A m \in extraction.result.upi_ids :
            Lower(DomainToken(m)) \notin ExcludedDomains
      /\ <<"s", "o", "m", "e", "o", "n", "e", "@", "g", "m", "a", "i", "l">>
            \notin extraction.result.upi_ids

\* a text with a token that is a UpiId and a token whose domain, written in
\* capitals, is excluded
C24_Witness ==
    /\ Ran
    /\ \E m \in UpiTokens(ExtractText) : m \in extraction.result.upi_ids
    /\ \E m \in UpiTokens(ExtractText) :
          /\ DomainToken(m) \notin ExcludedDomains
          /\ Lower(DomainToken(m)) \in ExcludedDomains
          /\ m \notin extraction.result.upi_ids

ResultKeys ==
    {"bank_accounts", "upi_ids", "phone_numbers", "phishing_links", "emails",
     "ifsc_codes", "has_intelligence"}

PhoneRunAt(t, i, p) ==
    /\ i >= 1 /\ i + 9 <= Len(t)
    /\ SubSeq(t, i, i + 9) = p
    /\ (i + 9 = Len(t) \/ ~IsDigit(t[i + 10]))
    /\ \/ i = 1
       \/ ~IsDigit(t[i - 1])
       \/ /\ StartsWithAt(t, i - 2, <<"9", "1">>, FALSE)
          /\ (i - 2 = 1 \/ ~IsDigit(t[i - 3]))

\* C27: every PhoneNumber returned is a run of exactly ten digits of the text
\* that starts with 6..9, optionally preceded by +91 or 91; no PhoneNumber is
\* the tail of a longer run of digits
C27_PhoneFromExactRun ==
    Ran =>
      \A p \in extraction.result.phone_numbers :
          /\ Len(p) = 10
          /\ p[1] \in {"6", "7", "8", "9"}
          /\ \E i \in 1..Len(ExtractText) : PhoneRunAt(ExtractText, i, p)

\* ------------------------------------------------------------------------
\* Properties of honeypot.py and main.py
\* ------------------------------------------------------------------------

\* a call has been made
Called == last.session_id # ""

\* the record of the latest call's session, as the call left it
Post == sessions[last.session_id]

Succeeded == Called /\ last.result.status = "success"

Kinds == {"BankAccount", "UpiId", "PhoneNumber", "Url", "Email", "RoutingCode",
          "Keyword"}

\* the kinds a record has a list for
KeptKinds == {"BankAccount", "UpiId", "PhoneNumber", "Url", "Keyword"}

\* what one text yields for a kind: the result of extract_intelligence and,
\* for Keyword, the phrases of the list the text contains
Extracted(text, kind) ==
    CASE kind = "BankAccount" -> IntelligenceOf[text].bank_accounts
      [] kind = "UpiId" -> IntelligenceOf[text].upi_ids
      [] kind = "PhoneNumber" -> IntelligenceOf[text].phone_numbers
      [] kind = "Url" -> IntelligenceOf[text].phishing_links
      [] kind = "Email" -> IntelligenceOf[text].emails
      [] kind = "RoutingCode" -> IntelligenceOf[text].ifsc_codes
      [] kind = "Keyword" ->
            IF IsStr(text)
            THEN {SUSPICIOUS_KEYWORDS[k] :
                     k \in {j \in DOMAIN SUSPICIOUS_KEYWORDS : KeywordIn[text][j]}}
            ELSE {}

ExtractedFrom(texts, kind) == UNION {Extracted(text, kind) : text \in texts}

\* what a record holds for a kind; it has no list for Email and RoutingCode
Held(s, kind) ==
    CASE kind = "BankAccount" -> Range(s.extracted_intelligence.bankAccounts)
      [] kind = "UpiId" -> Range(s.extracted_intelligence.upiIds)
      [] kind = "PhoneNumber" -> Range(s.extracted_intelligence.phoneNumbers)
      [] kind = "Url" -> Range(s.extracted_intelligence.phishingLinks)
      [] kind = "Keyword" -> Range(s.extracted_intelligence.suspiciousKeywords)
      [] OTHER -> {}

\* the Counterparty texts of a supplied history
HistoryTexts(history) ==
    {history[i].text : i \in {j \in DOMAIN history : history[j].sender = "scammer"}}

\* C1: in every state and for every kind, what the record holds is the union
\* of what extraction returned for the Counterparty texts processed so far
\* for the session.
C1_IntelligenceIsUnion ==
    \A sid \in DOMAIN sessions : \A kind \in Kinds :
        Held(sessions[sid], kind) = ExtractedFrom(processed[sid], kind)

\* C2: every list of extracted_intelligence holds, after a call, all the
\* values it held before the call.
C2_Monotone ==
    Called =>
        \A kind \in KeptKinds : Held(last.pre, kind) \subseteq Held(Post, kind)

\* a call replayed a history into a record that held findings
C2_Witness ==
    /\ Called
    /\ last.existed
    /\ last.rebuilt
    /\ \E kind \in KeptKinds : Held(last.pre, kind) # {}

\* C3: in every state, turn_count is the length of the turn sequence.
C3_TurnCountIsLength ==
    \A sid \in DOMAIN sessions :
        sessions[sid].turn_count = Len(sessions[sid].messages)

\* C4: for an existing session, a supplied history that is empty or no longer
\* than the turn sequence leaves the record as it was when
\* get_or_create_session returns.
C4_StaleHistoryIgnored ==
    (/\ Called
     /\ last.existed
     /\ Len(last.history) <= Len(last.pre.messages))
        => last.got = last.pre

\* a call supplied a history exactly as long as the turn sequence
C4_Witness ==
    /\ Called
    /\ last.existed
    /\ last.history # <<>>
    /\ Len(last.history) = Len(last.pre.messages)

\* C5 as stated: after a turn that replayed a longer history, every list
\* holds exactly the findings of the Counterparty texts of the history and
\* of the new turn.
C5_Replaced ==
    (Succeeded /\ last.rebuilt) =>
        \A kind \in KeptKinds :
            Held(Post, kind) =
                ExtractedFrom(HistoryTexts(last.history) \cup {last.message}, kind)

\* C5 amended: after a turn that replayed a longer history and returned
\* success, every list holds exactly what it held before the turn together
\* with the findings of the Counterparty texts of the history and of the
\* new turn.
C5_Extended ==
    (Succeeded /\ last.rebuilt) =>
        \A kind \in KeptKinds :
            Held(Post, kind) =
                Held(last.pre, kind) \cup
                ExtractedFrom(HistoryTexts(last.history) \cup {last.message}, kind)

\* a turn replayed a history that lacks a finding the record held
C5_Witness ==
    /\ Succeeded
    /\ last.rebuilt
    /\ \E kind \in KeptKinds :
          Held(last.pre, kind) \ ExtractedFrom(HistoryTexts(last.history)
                                                 \cup {last.message}, kind) # {}

\* C6: a call sends a report request exactly when it gets to the gate with
\* scam_detected true, one of the four valuable lists non-empty and
\* callback_sent false.
C6_ReportGate ==
    Called =>
        (last.posted <=>
            /\ last.reached
            /\ last.merged.scam_detected
            /\ \E kind \in {"BankAccount", "UpiId", "PhoneNumber", "Url"} :
                  Held(last.merged, kind) # {}
            /\ ~last.merged.callback_sent)

\* a call sent a report request
C6_Witness == Called /\ last.posted

\* C7: callback_sent starts false, a call never takes it from true to false,
\* and a call on a record whose callback_sent is true sends no request.
C7_Latch ==
    Called =>
        /\ ~last.existed => ~last.pre.callback_sent
        /\ last.pre.callback_sent => (Post.callback_sent /\ ~last.posted)

\* a turn added a finding to a record whose report had been acknowledged
C7_Witness ==
    /\ Succeeded
    /\ last.pre.callback_sent
    /\ \E kind \in KeptKinds : Held(Post, kind) # Held(last.pre, kind)

\* C8: after a call that sent a report request, callback_sent is true
\* exactly when the response had a 2xx status code.
C8_SetOn2xx ==
    (Called /\ last.posted) => (Post.callback_sent <=> Is2xx(last.ack))

\* C9: a failed request leaves callback_sent false, every later turn that
\* meets the gate sends the request again, and once the collaborator has
\* acknowledged a request of the session callback_sent is true.
C9_RetryUntilAcknowledged ==
    /\ (Called /\ last.posted /\ ~Is2xx(last.ack)) => ~Post.callback_sent
    /\ (/\ Called
        /\ last.reached
        /\ last.merged.scam_detected
        /\ has_valuable_intelligence(last.merged)
        /\ ~last.merged.callback_sent) => last.posted
    /\ \A sid \in acknowledged : sessions[sid].callback_sent

\* C10: when the request fails, the call still returns success with the
\* reply, and the record keeps the turn's messages and findings.
C10_FailureKeepsTurn ==
    (Called /\ last.posted /\ (last.ack.raised \/ last.ack.status_code # 200)) =>
        /\ last.result.status = "success"
        /\ DOMAIN last.result = {"status", "reply"}
        /\ Post.messages = last.merged.messages
        /\ Len(Post.messages) >= 2
        /\ Post.messages[Len(Post.messages) - 1] =
               [role |-> "scammer", content |-> last.message]
        /\ Post.messages[Len(Post.messages)] =
               [role |-> "user", content |-> last.result.reply]
        /\ Post.extracted_intelligence = last.merged.extracted_intelligence
        /\ \A kind \in KeptKinds :
              Extracted(last.message, kind) \subseteq Held(Post, kind)

\* a request met an exception of requests.post
C10_Witness == Called /\ last.posted /\ last.ack.raised

\* C11: a call on a record whose scam_detected is true leaves it true and
\* does not call detect_scam, whatever the classifier would answer and
\* whether or not the call replays a history or ends in the error result.
C11_ScamDetectedLatch ==
    (Called /\ last.pre.scam_detected) =>
        /\ Post.scam_detected
        /\ ~last.classified
        /\ last.answer = NoAnswer

\* a call replayed a history into a record whose scam_detected was true
C11_Witness ==
    /\ Called
    /\ last.pre.scam_detected
    /\ last.rebuilt
    /\ last.reached

\* C12 as stated: detect_scam is called at most once for a session.
C12_AtMostOnce == \A sid \in SessionIds : detections[sid] <= 1

\* C12 amended: a call that gets to the classification step calls
\* detect_scam exactly when scam_detected is false at that point, and no
\* call calls it on a record whose scam_detected is true.
C12_UntilDetected ==
    Called =>
        /\ last.reached => (last.classified <=> ~last.pre.scam_detected)
        /\ last.classified => ~last.pre.scam_detected

\* the second turn of a session was classified like the first
C12_Witness ==
    /\ Called
    /\ last.existed
    /\ last.classified
    /\ detections[last.session_id] = 2

\* two requests of a session were both accepted before the handler of the
\* first returned, and both have been handled
BothServed(sid) ==
    /\ Len(served[sid]) = 2
    /\ served[sid][1].overlapped
    /\ sid \in DOMAIN sessions

ServedTexts(sid) == {served[sid][i].text : i \in DOMAIN served[sid]}

C14_NeverDoubleSent ==
    \A sid \in SessionIds :
        \A i \in DOMAIN reports[sid] :
            Is2xx(reports[sid][i]) => i = Len(reports[sid])

\* C15: the handler of an accepted request is never kept from starting by
\* the handler of a request of another session, and a call leaves the
\* records of all other sessions as they were.
C15_Independent ==
    /\ \A request \in pending :
          running = NoRequest \/ running.sessionId = request.sessionId
    /\ Called =>
          \A sid \in DOMAIN last.store \ {last.session_id} :
              /\ sid \in DOMAIN sessions
              /\ sessions[sid] = last.store[sid]

\* C16: a call returns a dict with status 'success' and a reply or with
\* status 'error' and a message, and the response of analyze_message has
\* status code 200 and this dict as body.
C16_ResultShape ==
    /\ Called =>
          \/ /\ last.result.status = "success"
             /\ DOMAIN last.result = {"status", "reply"}
             /\ IsStr(last.result.reply)
          \/ /\ last.result.status = "error"
             /\ DOMAIN last.result = {"status", "message"}
    /\ response # NoResponse =>
          /\ Called
          /\ response.status_code = 200
          /\ response.body = last.result
          /\ Len(served[last.session_id]) > 0
          /\ served[last.session_id][Len(served[last.session_id])].status =
                 response.body.status

\* a call returned the error result
C16_Witness == Called /\ last.result.status = "error" /\ last.history # <<>>

\* C17: a call whose message is empty or not a str returns success, adds no
\* finding to the record and leaves scam_detected as it was.
C17_MalformedIsBenign ==
    (Called /\ ~Truthy(last.message)) =>
        /\ Succeeded
        /\ \A kind \in KeptKinds : Held(Post, kind) = Held(last.got, kind)
        /\ Post.scam_detected = last.pre.scam_detected

Diagnostics ==
    {"Detection failed", "Empty response from model", "Response format error"}

\* C18: when the call to the classification model raises or its response
\* is empty or cannot be parsed, detect_scam returns is_scam false with a
\* reason that names the failure, and the turn returns success with
\* scam_detected false.
C18_ClassifierFailure ==
    (Called /\ last.reached /\ last.answer.kind \in {"raises", "empty", "noparse"}) =>
        /\ last.classified
        /\ ~detect_scam(last.message, last.answer).is_scam
        /\ detect_scam(last.message, last.answer).reason \in Diagnostics
        /\ Post.scam_type = detect_scam(last.message, last.answer).reason
        /\ ~Post.scam_detected
        /\ Succeeded
        /\ Len(Post.messages) >= 2
        /\ Post.messages[Len(Post.messages)].role = "user"

\* the call to the classification model failed in a turn whose text has a
\* finding
C18_Witness ==
    /\ Called
    /\ last.reached
    /\ last.answer.kind \in {"raises", "empty", "noparse"}
    /\ has_valuable_intelligence(Post)

\* C19: when the Gemini client does not exist or the call to it raises, the
\* reply is the fallback string at index turn_count mod 8, turn_count being
\* the one of the record when the reply is made, the reply is appended as
\* the agent's entry and the call returns success.
C19_FallbackReply ==
    (Called /\ last.reached /\ (~client \/ last.gen.kind = "raises")) =>
        /\ Succeeded
        /\ last.result.reply =
               Str(fallbacks[((last.merged.turn_count - 1) % 8) + 1])
        /\ last.merged.messages[Len(last.merged.messages)] =
               [role |-> "user", content |-> last.result.reply]
        /\ Post.messages = last.merged.messages

\* the call to the Gemini client raised when turn_count was 8
C19_Witness ==
    /\ Called
    /\ last.reached
    /\ last.gen.kind = "raises"
    /\ last.merged.turn_count - 1 = 8

\* a message and a history as a caller that keeps to the types supplies them
WellFormed(message, history) ==
    /\ IsStr(message)
    /\ \A i \in DOMAIN history : IsStr(history[i].text)

\* C20: once a call has returned the error result, for whatever session,
\* a call with a str as message and a history of str texts returns success.
C20_ServesAfterError ==
    (Called /\ last.failed # {} /\ WellFormed(last.message, last.history)) =>
        Succeeded

\* a call for a session succeeded after a call for this session had failed
C20_Witness ==
    /\ Succeeded
    /\ last.session_id \in last.failed
    /\ \E i \in DOMAIN last.pre.messages : ~IsStr(last.pre.messages[i].content)

\* a list holds no value twice
NoDuplicates(list) == Cardinality(Range(list)) = Len(list)

IntelligenceLists ==
    {"bankAccounts", "upiIds", "phoneNumbers", "phishingLinks", "suspiciousKeywords"}

\* C21: no list of any record holds a value twice, and a call all of whose
\* Counterparty texts (the replayed ones and the new one) were Counterparty
\* texts of the turn sequence before the call leaves every list as it was
C21_MergeIdempotent ==
    /\ \A sid \in DOMAIN sessions : \A l \in IntelligenceLists :
          NoDuplicates(sessions[sid].extracted_intelligence[l])
    /\ (/\ Called
        /\ CounterpartyTexts(Appended(last, Post))
              \subseteq CounterpartyTexts(last.pre.messages))
          => Post.extracted_intelligence = last.pre.extracted_intelligence

\* a call replayed a history and took a message whose texts the record had
\* processed, the record holding findings
C21_Witness ==
    /\ Called
    /\ last.existed
    /\ last.rebuilt
    /\ HistoryTexts(last.history) # {}
    /\ CounterpartyTexts(Appended(last, Post))
          \subseteq CounterpartyTexts(last.pre.messages)
    /\ \E l \in IntelligenceLists : last.pre.extracted_intelligence[l] # <<>>

\* the entries rebuild_from_history makes of a supplied history
HistoryEntries(history) ==
    [i \in DOMAIN history |-> [role |-> history[i].sender, content |-> history[i].text]]

IsPrefix(a, b) == Len(a) <= Len(b) /\ SubSeq(b, 1, Len(a)) = a

\* C22 as stated: the turn sequence before a call is a prefix of the turn
\* sequence after it
C22_AppendOnly ==
    Called => IsPrefix(last.pre.messages, Post.messages)

\* C22 amended: a call that does not replay a history only appends to the
\* turn sequence; a call that replays one leaves a turn sequence that starts
\* with the entries of the history in their order, or, when it ended with
\* the error result, may be a part of the history from its start
C22_AppendOnlyUnlessReplayed ==
    Called =>
        IF last.rebuilt
        THEN \/ IsPrefix(HistoryEntries(last.history), Post.messages)
             \/ /\ ~Succeeded
                /\ IsPrefix(Post.messages, HistoryEntries(last.history))
        ELSE IsPrefix(last.pre.messages, Post.messages)

\* a replay put other entries in the place of the ones the record held
C22_Witness ==
    /\ Succeeded
    /\ last.rebuilt
    /\ last.pre.messages # <<>>
    /\ ~IsPrefix(last.pre.messages, Post.messages)

\* C26: a call that replays a history leaves get_or_create_session with the
\* turn sequence equal to the history in its order and turn_count equal to
\* its length; when the call returns success, turn_count and the length of
\* the turn sequence are the length of the history plus 2
C26_RebuildEqualsHistory ==
    (Called /\ last.rebuilt) =>
        /\ last.got.messages = HistoryEntries(last.history)
        /\ last.got.turn_count = Len(last.history)
        /\ Succeeded =>
              /\ Post.turn_count = Len(last.history) + 2
              /\ Len(Post.messages) = Len(last.history) + 2

\* what the texts of a kind are in a text of the model
FindingsIn(text, kind) == IF IsStr(text) THEN Extracted(text, kind) ELSE {}

\* C28: a call that returns success leaves the turn sequence two entries
\* longer than get_or_create_session left it, the message with role scammer
\* and then the reply with role user, and turn_count 2 higher (than before
\* the call when no history was replayed); the record holds what it held and
\* what the message yields, and nothing for the reply
C28_TwoEntriesPerTurn ==
    Succeeded =>
        /\ Len(Post.messages) = Len(last.got.messages) + 2
        /\ SubSeq(Post.messages, 1, Len(last.got.messages)) = last.got.messages
        /\ Post.messages[Len(Post.messages) - 1] =
               [role |-> "scammer", content |-> last.message]
        /\ Post.messages[Len(Post.messages)] =
               [role |-> "user", content |-> last.result.reply]
        /\ Post.turn_count = last.got.turn_count + 2
        /\ ~last.rebuilt => Post.turn_count = last.pre.turn_count + 2
        /\ \A kind \in KeptKinds :
              Held(Post, kind) = Held(last.got, kind) \cup Extracted(last.message, kind)

\* a turn without a replay, on a record that holds turns, whose reply holds
\* a finding the record does not hold
C28_Witness ==
    /\ Succeeded
    /\ ~last.rebuilt
    /\ last.existed
    /\ \E kind \in KeptKinds :
          FindingsIn(last.result.reply, kind) \ Held(Post, kind) # {}

ValuableLists == {"bankAccounts", "upiIds", "phoneNumbers", "phishingLinks"}

\* C29: a report request that is sent carries scamDetected true, one of
\* bankAccounts, upiIds, phoneNumbers, phishingLinks non-empty, and
\* totalMessagesExchanged equal to turn_count of the record at that point,
\* which counts the message and the reply of the turn
C29_ReportContent ==
    (Called /\ last.posted) =>
        /\ last.payload.scamDetected
        /\ \E l \in ValuableLists : last.payload.extractedIntelligence[l] # <<>>
        /\ last.payload.totalMessagesExchanged = last.merged.turn_count
        /\ last.merged.turn_count = last.got.turn_count + 2
        /\ Len(last.merged.messages) = Len(last.got.messages) + 2
        /\ last.merged.messages[Len(last.merged.messages) - 1] =
               [role |-> "scammer", content |-> last.message]
        /\ last.merged.messages[Len(last.merged.messages)].role = "user"

\* a report request was sent by a turn that followed an earlier one
C29_Witness ==
    /\ Called
    /\ last.posted
    /\ last.existed
    /\ last.payload.totalMessagesExchanged > 2

\* C30: no call leaves turn_count of the record lower than it was before the
\* call
C30_TurnCountNeverDecreases ==
    Called => Post.turn_count >= last.pre.turn_count

\* C31: a call that returns the error result leaves the store, and with it
\* the record of the session (turn sequence, turn_count, the lists of
\* findings, scam_detected, callback_sent), as it was before the call
C31_ErrorLeavesStoreUnchanged ==
    (Called /\ ~Succeeded) => sessions = last.store

====
